---- MODULE Spec2Model ----
(***************************************************************************)
(* Bike-share ingestion pipeline: the archive catalog resolver, the        *)
(* fetcher and unpacker (data_ingestion/extractors/s3_downloader.py), the  *)
(* record cleaner (data_ingestion/utils/data_cleaner.py) and the bulk      *)
(* loader with its retry wrapper and entry point                           *)
(* (scripts/load_to_clickhouse.py).                                        *)
(*                                                                         *)
(* A file name is a sequence of tokens, e.g. <<"JC", "1", ".csv", ".zip">> *)
(* for "JC1.csv.zip": str.startswith / str.endswith look at the first and  *)
(* the last token and str.replace(".zip", ".csv") rewrites every ".zip"    *)
(* token.  A path is the name of a file inside data_dir.                   *)
(***************************************************************************)
EXTENDS Integers, Sequences, FiniteSets, TLC

VARIABLES
    \* --- remote index and configuration (S3BikeShareDownloader.__init__)
    listing,        \* the <Key> texts of the remote index, in index order
    start_from,     \* self.start_from, the configured cursor
    \* --- one call of get_file_links
    pcList,         \* "start" | "done" | "raised"
    links,          \* the list get_file_links returned
    \* --- local storage (self.data_dir) and calls of the downloader's methods
    disk,           \* path -> "none" | "part" (truncated) | "full"
    last,           \* the latest download_file / extract_zip call
    prev,           \* the call before it
    unpacked,       \* keys whose extract_zip has returned a CSV path
    \* --- the payload file, the store and load_csv_to_clickhouse
    csv,            \* the rows of the payload file, in file order
    batch_size,     \* the chunk size
    skip_duplicates,
    tableExists,    \* raw_rides has been created
    store,          \* the rows of raw_rides, in insertion order
    pcLoad,         \* "idle" | "connect" | "check" | "chunks" | "returned" | "raised"
    attempt,        \* the retry wrapper's attempt
    chunk_count,
    total_rows,
    ret,            \* the value the latest call returned
    runs,           \* calls made so far
    storeAtCall,    \* the store when the latest call began
    written,        \* the batches the current attempt has written
    \* --- one call of download_all
    limit,          \* the limit argument, NoLimit for None
    max_workers,
    pcAll,          \* "start" | "fetching" | "extracting" | "done" | "raised"
    file_links,     \* the candidates after the limit
    task,           \* per candidate: "queued" | "request" | "writing" | "done"
    downloaded_paths, \* per candidate: what download_file returned
    position,       \* the extraction loop's position in downloaded_paths
    unpack_ret,     \* per candidate: what extract_zip returned, if called
    csv_files,      \* the list download_all builds and returns
    \* --- one call of BikeShareCleaner.clean
    frame,          \* the data frame clean is called on
    pcClean,        \* "start" | "done"
    cleaned,        \* the frame clean returned
    \* --- one call of a function wrapped by retry(max_attempts, delay)
    retry_max_attempts, \* the decorator's max_attempts
    retry_delay,    \* the decorator's delay
    pcRetry,        \* "loop" | "sleep" | "returned" | "raised"
    retry_attempt,  \* the wrapper's loop variable
    executions,     \* how each execution of func ended, in order
    slept,          \* the arguments of the time.sleep calls, in order
    retry_result,   \* what the wrapper returned or raised
    \* --- one run of the entry point (__main__) and its workflow
    workflow,       \* "download" | "file" | "dir", from the arguments
    dir_exists,     \* data_path.exists()
    found_files,    \* the CSV files glob / download_all comes up with
    pcMain,         \* "start" | "loading" | "validate" | "done" | "exit1"
    to_load,        \* the list the workflow loops over
    load_pos,       \* the loop's position in it
    results,        \* how each load_csv_to_clickhouse call ended, in order
    total_loaded,
    failed_files,
    total,          \* what the workflow returned
    validated       \* validate_loaded_data has sent its first query

catVars == <<listing, start_from, pcList, links>>
diskVars == <<disk, last, prev, unpacked>>
loadVars == <<csv, batch_size, skip_duplicates, tableExists, store, pcLoad,
              attempt, chunk_count, total_rows, ret, runs, storeAtCall,
              written>>

allVars == <<limit, max_workers, pcAll, file_links, task, downloaded_paths,
             position, unpack_ret, csv_files>>

cleanVars == <<frame, pcClean, cleaned>>

retryVars == <<retry_max_attempts, retry_delay, pcRetry, retry_attempt,
               executions, slept, retry_result>>

\* the variables of the components added to the first four
mainVars == <<workflow, dir_exists, found_files, pcMain, to_load, load_pos, results,
              total_loaded, failed_files, total, validated>>

extraVars == <<cleanVars, retryVars, mainVars>>

firstVars == <<catVars, diskVars, loadVars, allVars>>

vars == <<catVars, diskVars, loadVars, allVars, extraVars>>

----------------------------------------------------------------------------
(* Bounds of the model *)

\* longest remote listing enumerated for get_file_links
MaxListing == 3

----------------------------------------------------------------------------
(* File names *)

JC1 == <<"JC", "1", ".csv", ".zip">>
JC2 == <<"JC", "2", ".csv", ".zip">>
JC3 == <<"JC", "3", ".zip">>
\* keys of the listing that the filter rejects
OtherZip == <<"A", ".zip">>
JCNotZip == <<"JC", "1", ".csv">>

ListedKeys == {JC1, JC2, JC3, OtherZip, JCNotZip}

\* key.text.startswith("JC")
StartsWithJC(name) == Len(name) > 0 /\ name[1] = "JC"

\* key.text.endswith(".zip")
EndsWithZip(name) == Len(name) > 0 /\ name[Len(name)] = ".zip"

\* file_name.replace(".zip", ".csv"): every occurrence is replaced
ReplaceZipCsv(name) ==
    [i \in 1..Len(name) |-> IF name[i] = ".zip" THEN ".csv" ELSE name[i]]

\* the sequences over S of length at most n
SeqUpTo(S, n) == UNION {[1..m -> S] : m \in 0..n}

\* x in list
InList(x, list) == \E i \in 1..Len(list) : list[i] = x

----------------------------------------------------------------------------
(* Each specification below runs one component; the variables of the others *)
(* keep these values.                                                        *)

\* None (no path is empty)
None == <<>>

\* the value of last and prev before any call
NoCall == [op |-> "none"]

\* limit=None
NoLimit == 0 - 1

\* the entry of unpack_ret for a candidate extract_zip was not called on
NotCalled == <<"not called">>

CatalogIdle ==
    /\ listing = <<>>
    /\ start_from = JC1
    /\ pcList = "start"
    /\ links = <<>>

DiskIdle ==
    /\ disk = <<>>
    /\ last = NoCall
    /\ prev = NoCall
    /\ unpacked = {}

LoadIdle ==
    /\ csv = <<>>
    /\ batch_size = 1
    /\ skip_duplicates = TRUE
    /\ tableExists = FALSE
    /\ store = <<>>
    /\ pcLoad = "idle"
    /\ attempt = 0
    /\ chunk_count = 0
    /\ total_rows = 0
    /\ ret = 0
    /\ runs = 0
    /\ storeAtCall = <<>>
    /\ written = <<>>

AllIdle ==
    /\ limit = NoLimit
    /\ max_workers = 1
    /\ pcAll = "idle"
    /\ file_links = <<>>
    /\ task = <<>>
    /\ downloaded_paths = <<>>
    /\ position = 0
    /\ unpack_ret = <<>>
    /\ csv_files = <<>>

CleanIdle ==
    /\ frame = <<>>
    /\ pcClean = "start"
    /\ cleaned = <<>>

RetryIdle ==
    /\ retry_max_attempts = 0
    /\ retry_delay = 0
    /\ pcRetry = "loop"
    /\ retry_attempt = 1
    /\ executions = <<>>
    /\ slept = <<>>
    /\ retry_result = None

MainIdle ==
    /\ workflow = "dir"
    /\ dir_exists = TRUE
    /\ found_files = <<>>
    /\ pcMain = "start"
    /\ to_load = <<>>
    /\ load_pos = 0
    /\ results = <<>>
    /\ total_loaded = 0
    /\ failed_files = <<>>
    /\ total = 0
    /\ validated = FALSE

ExtraIdle == CleanIdle /\ RetryIdle /\ MainIdle

FirstIdle == CatalogIdle /\ DiskIdle /\ LoadIdle /\ AllIdle

----------------------------------------------------------------------------
(* 4.1 Archive catalog resolver: get_file_links *)

\* the list comprehension over soup.find_all("Key")
FilterKeys(L) == SelectSeq(L, LAMBDA k : StartsWithJC(k) /\ EndsWithZip(k))

\* (variant: the position of the last occurrence)
ListIndexLast(list, x) ==
    CHOOSE i \in 1..Len(list) :
        list[i] = x /\ \A j \in (i+1)..Len(list) : list[j] # x
\* list.index(x): the position of the first occurrence
ListIndex(list, x) ==
    CHOOSE i \in 1..Len(list) : list[i] = x /\ \A j \in 1..(i-1) : list[j] # x

\* keys[start_index:]
SliceFrom(list, i) == SubSeq(list, i, Len(list))

\* the value get_file_links returns when the index request succeeds
FileLinks(L, c) ==
    LET keys == FilterKeys(L)
    IN  IF InList(c, keys) THEN SliceFrom(keys, ListIndex(keys, c)) ELSE <<>>

InitCatalog ==
    /\ DiskIdle
    /\ LoadIdle
    /\ AllIdle
    /\ ExtraIdle
    /\ listing \in SeqUpTo(ListedKeys, MaxListing)
    /\ start_from \in ListedKeys
    /\ pcList = "start"
    /\ links = <<>>

\* requests.get + raise_for_status succeed, the keys are parsed and sliced
GetFileLinksOk ==
    /\ pcList = "start"
    /\ links' = FileLinks(listing, start_from)
    /\ pcList' = "done"
    /\ UNCHANGED <<listing, start_from>>

\* requests.get or raise_for_status raises: logged and re-raised
GetFileLinksRaise ==
    /\ pcList = "start"
    /\ pcList' = "raised"
    /\ UNCHANGED <<listing, start_from, links>>

GetFileLinksCall ==
    /\ GetFileLinksOk \/ GetFileLinksRaise
    /\ UNCHANGED <<diskVars, loadVars, allVars, extraVars>>

NextCatalog == GetFileLinksCall

SpecCatalog == InitCatalog /\ [][NextCatalog]_vars

----------------------------------------------------------------------------
\* filtered(L), stated position by position: an order-preserving selection
IsFiltered(F, L) ==
    \E pos \in [1..Len(F) -> 1..Len(L)] :
        /\ \A i \in 1..Len(F) : F[i] = L[pos[i]]
        /\ \A i, j \in 1..Len(F) : i < j => pos[i] < pos[j]
        /\ \A p \in 1..Len(L) :
              (L[p][1] = "JC" /\ L[p][Len(L[p])] = ".zip")
                  <=> (\E i \in 1..Len(F) : pos[i] = p)

(* C1: when the index request succeeds, get_file_links returns the suffix  *)
(* of the filtered listing that starts at the (first) cursor position, in  *)
(* listing order, and the empty list when the cursor is not among the      *)
(* filtered keys; the filter keeps the JC*...zip keys in order.            *)

C1_CursorSuffix ==
    pcList = "done" =>
        \E F \in SeqUpTo(ListedKeys, Len(listing)) :
            /\ IsFiltered(F, listing)
            /\ IF \E i \in 1..Len(F) : F[i] = start_from
               THEN \E i \in 1..Len(F) :
                       /\ F[i] = start_from
                       /\ \A j \in 1..(i-1) : F[j] # start_from
                       /\ Len(links) = Len(F) - i + 1
                       /\ \A j \in 1..Len(links) : links[j] = F[i + j - 1]
               ELSE links = <<>>

C1_Witness ==
    /\ pcList = "done"
    /\ Len(links) >= 2
    /\ Len(links) < Len(listing)
    /\ links[1] = start_from

----------------------------------------------------------------------------
(* 4.2 / 4.3 Fetcher and unpacker: download_file and extract_zip, called   *)
(* one after the other in any order on a data directory that starts empty. *)
(* Deleting a file of data_dir (Path.unlink) is taken to succeed.          *)

\* the keys the fetcher is called with: one whose archive member is renamed
\* after extraction (JC1.csv.zip holds JC1.csv, stored as JC1.csv.csv) and
\* one whose member already has the canonical name
FetchKeys == {JC1, JC3}

\* zip_path.name[:-len(".zip")]: the archive's name without its last suffix
Stem(name) == SubSeq(name, 1, Len(name) - 1)

\* name.endswith(".csv")
EndsWithCsv(name) == Len(name) > 0 /\ name[Len(name)] = ".csv"

\* the payload member an archive of this key may hold (zip_ref.namelist())
Members(k) == {m \in {ReplaceZipCsv(k), Stem(k)} : EndsWithCsv(m)}

Paths == FetchKeys \cup {ReplaceZipCsv(k) : k \in FetchKeys}
            \cup UNION {Members(k) : k \in FetchKeys}

EmptyDisk == [p \in Paths |-> "none"]

\* Path.exists()
Exists(d, p) == d[p] # "none"

\* what the transfer of one object can do
FetchOutcomes == {"ok", "http_error", "io_error"}

\* lines 80-95: the request, the streamed write, and the except clause.
\* An error before open() leaves no file; an error while the chunks are
\* written leaves the truncated file, which the except clause does not remove.
Transfer(d, zip_path, outcome) ==
    CASE outcome = "ok"         -> [disk |-> [d EXCEPT ![zip_path] = "full"],
                                    ret |-> zip_path, net |-> 1]
      [] outcome = "http_error" -> [disk |-> d, ret |-> None, net |-> 1]
      [] outcome = "io_error"   -> [disk |-> [d EXCEPT ![zip_path] = "part"],
                                    ret |-> None, net |-> 1]

\* the path download_file returns without a request (lines 70-78), or None
FoundOnDisk(d, file_name) ==
    IF Exists(d, ReplaceZipCsv(file_name)) THEN ReplaceZipCsv(file_name)
    ELSE IF Exists(d, file_name) THEN file_name
    ELSE None

\* (variants: download_file without its first, without its second check)
DownloadFileNoCsvCheck(d, file_name, outcome) ==
    IF Exists(d, file_name)
    THEN [disk |-> d, ret |-> file_name, net |-> 0]
    ELSE Transfer(d, file_name, outcome)
DownloadFileNoZipCheck(d, file_name, outcome) ==
    IF Exists(d, ReplaceZipCsv(file_name))
    THEN [disk |-> d, ret |-> ReplaceZipCsv(file_name), net |-> 0]
    ELSE Transfer(d, file_name, outcome)
\* download_file(file_name): the new disk, the returned path (or None) and
\* the number of object requests made
DownloadFile(d, file_name, outcome) ==
    LET found == FoundOnDisk(d, file_name)
    IN  IF found # None
        THEN [disk |-> d, ret |-> found, net |-> 0]
        ELSE Transfer(d, file_name, outcome)

\* what opening and extracting one archive can do
UnpackOutcomes == {"ok", "no_csv", "bad_zip", "extract_error", "rename_error"}

\* the outcomes an archive on disk allows: a truncated archive cannot be
\* opened, and the rename only runs (and fails) when the names differ
UnpackPossible(d, zip_path, member, outcome) ==
    /\ d[zip_path] = "part" => outcome = "bad_zip"
    /\ outcome = "rename_error" => member # ReplaceZipCsv(zip_path)

\* (variant: the archive is removed on every path)
ExtractDeletesOnError(d, zip_path, member, outcome) ==
    LET csv_path == ReplaceZipCsv(zip_path)
    IN  IF outcome = "ok"
        THEN [disk |-> [d EXCEPT ![member] = "none", ![csv_path] = "full",
                                 ![zip_path] = "none"],
              ret |-> csv_path, extracted |-> TRUE]
        ELSE [disk |-> [d EXCEPT ![zip_path] = "none"], ret |-> None,
              extracted |-> FALSE]
\* lines 110-139: open, pick the member, extract, rename, unlink
Extract(d, zip_path, member, outcome) ==
    LET csv_path == ReplaceZipCsv(zip_path)
    IN  CASE outcome = "ok" ->
               [disk |-> [d EXCEPT ![member] = "none", ![csv_path] = "full",
                                   ![zip_path] = "none"],
                ret |-> csv_path, extracted |-> TRUE]
          [] outcome \in {"no_csv", "bad_zip"} ->
               [disk |-> d, ret |-> None, extracted |-> FALSE]
          [] outcome = "extract_error" ->
               [disk |-> [d EXCEPT ![member] = "part"], ret |-> None,
                extracted |-> TRUE]
          [] outcome = "rename_error" ->
               [disk |-> [d EXCEPT ![member] = "full"], ret |-> None,
                extracted |-> TRUE]

\* (variant: line 107 missing)
ExtractZipKeepsZip(d, zip_path, member, outcome) ==
    IF ~Exists(d, zip_path)
    THEN [disk |-> d, ret |-> None, extracted |-> FALSE]
    ELSE IF Exists(d, ReplaceZipCsv(zip_path))
    THEN [disk |-> d, ret |-> ReplaceZipCsv(zip_path), extracted |-> FALSE]
    ELSE Extract(d, zip_path, member, outcome)
\* extract_zip(zip_path): the new disk, the returned path (or None) and
\* whether zip_ref.extract ran
ExtractZip(d, zip_path, member, outcome) ==
    LET csv_path == ReplaceZipCsv(zip_path)
    IN  IF ~Exists(d, zip_path)
        THEN [disk |-> d, ret |-> None, extracted |-> FALSE]
        ELSE IF Exists(d, csv_path)
        THEN [disk |-> [d EXCEPT ![zip_path] = "none"], ret |-> csv_path,
              extracted |-> FALSE]
        ELSE Extract(d, zip_path, member, outcome)

InitDisk ==
    /\ CatalogIdle
    /\ LoadIdle
    /\ AllIdle
    /\ ExtraIdle
    /\ disk = EmptyDisk
    /\ last = NoCall
    /\ prev = NoCall
    /\ unpacked = {}

\* one call download_file(k)
CallDownloadFile(k, outcome) ==
    LET r == DownloadFile(disk, k, outcome)
    IN  /\ disk' = r.disk
        /\ prev' = last
        /\ last' = [op |-> "download_file", key |-> k, ret |-> r.ret,
                    net |-> r.net, extracted |-> FALSE, outcome |-> outcome,
                    pre |-> disk]
        /\ UNCHANGED unpacked

\* one call extract_zip(data_dir / k)
CallExtractZip(k, member, outcome) ==
    LET r == ExtractZip(disk, k, member, outcome)
    IN  /\ UnpackPossible(disk, k, member, outcome)
        /\ disk' = r.disk
        /\ prev' = last
        /\ last' = [op |-> "extract_zip", key |-> k, ret |-> r.ret,
                    net |-> 0, extracted |-> r.extracted, outcome |-> outcome,
                    pre |-> disk]
        /\ unpacked' = IF r.ret # None THEN unpacked \cup {k} ELSE unpacked

DownloadFileCall ==
    /\ \E k \in FetchKeys, o \in FetchOutcomes : CallDownloadFile(k, o)
    /\ UNCHANGED <<catVars, loadVars, allVars, extraVars>>

ExtractZipCall ==
    /\ \E k \in FetchKeys, o \in UnpackOutcomes :
          \E m \in Members(k) : CallExtractZip(k, m, o)
    /\ UNCHANGED <<catVars, loadVars, allVars, extraVars>>

NextDisk == DownloadFileCall \/ ExtractZipCall

SpecDisk == InitDisk /\ [][NextDisk]_vars

----------------------------------------------------------------------------
\* the latest two calls are download_file calls of one key
TwoFetchesInARow ==
    /\ prev.op = "download_file"
    /\ last.op = "download_file"
    /\ last.key = prev.key

(* C5 (as stated): two download_file calls of one key in a row return the  *)
(* same path and make at most one object request between them, whatever    *)
(* the first call's outcome.                                               *)

C5_AnyOutcome ==
    TwoFetchesInARow => last.ret = prev.ret /\ prev.net + last.net <= 1

(* C5 (amended): when the first of the two calls returns a path, the       *)
(* second returns the same path and makes no request, so at most one       *)
(* transfer is made by the two calls.                                      *)
C5_FetchIdempotent ==
    (TwoFetchesInARow /\ prev.ret # None) =>
        /\ last.ret = prev.ret
        /\ last.net = 0
        /\ prev.net + last.net <= 1

C5_Witness ==
    /\ TwoFetchesInARow
    /\ prev.ret = prev.key
    /\ prev.net = 1
    /\ last.ret = prev.ret

(* C6: after a download_file call that failed (returned None) no           *)
(* compressed file of that key, whole or truncated, is on disk.            *)
C6_NoPartialAfterFailure ==
    (last.op = "download_file" /\ last.ret = None) =>
        ~Exists(disk, last.key)

\* the latest call is an extract_zip that found the decompressed file
UnpackFoundCsv ==
    /\ last.op = "extract_zip"
    /\ Exists(last.pre, ReplaceZipCsv(last.key))

(* C8 (as stated): an extract_zip call that finds the decompressed file    *)
(* does not extract, makes no request, leaves no compressed file and       *)
(* returns the decompressed path.                                          *)
C8_AlwaysSuccess ==
    UnpackFoundCsv =>
        /\ ~last.extracted
        /\ last.net = 0
        /\ ~Exists(disk, last.key)
        /\ last.ret = ReplaceZipCsv(last.key)

(* C8 (amended): an extract_zip call that finds the decompressed file      *)
(* never extracts and makes no request; when the compressed input is       *)
(* present it deletes it, changes nothing else and returns the             *)
(* decompressed path; when the compressed input is absent it returns None  *)
(* and changes nothing.                                                    *)
C8_UnpackShortCircuit ==
    UnpackFoundCsv =>
        /\ ~last.extracted
        /\ last.net = 0
        /\ ~Exists(disk, last.key)
        /\ \A p \in Paths \ {last.key} : disk[p] = last.pre[p]
        /\ IF Exists(last.pre, last.key)
           THEN last.ret = ReplaceZipCsv(last.key)
           ELSE last.ret = None

C8_Witness ==
    /\ UnpackFoundCsv
    /\ Exists(last.pre, last.key)
    /\ ~Exists(disk, last.key)
    /\ last.ret = ReplaceZipCsv(last.key)

(* C9: once extract_zip has returned the CSV path of a key, in every later *)
(* state of the data directory the decompressed file of the key is present *)
(* and its compressed file is absent.                                      *)
C9_OneFormAfterUnpack ==
    \A k \in unpacked :
        Exists(disk, ReplaceZipCsv(k)) /\ ~Exists(disk, k)

C9_Witness ==
    /\ last.op = "download_file"
    /\ last.key \in unpacked
    /\ prev.op = "extract_zip"
    /\ prev.key = last.key
    /\ prev.extracted

\* the latest call is an extract_zip whose try block failed
UnpackFailed ==
    /\ last.op = "extract_zip"
    /\ Exists(last.pre, last.key)
    /\ ~Exists(last.pre, ReplaceZipCsv(last.key))
    /\ last.outcome # "ok"

(* C10: an extract_zip call that fails on an archive it found (no payload  *)
(* member, or an error while opening, extracting or renaming) returns None *)
(* and leaves the compressed input on disk as it was.                      *)
C10_FailureKeepsInput ==
    UnpackFailed =>
        /\ last.ret = None
        /\ Exists(disk, last.key)
        /\ disk[last.key] = last.pre[last.key]

C10_Witness ==
    /\ UnpackFailed
    /\ last.outcome = "rename_error"
    /\ last.pre[last.key] = "full"
    /\ disk[last.key] = "full"

----------------------------------------------------------------------------
(* 4.4 Record cleaner: BikeShareCleaner.clean                              *)
(*                                                                         *)
(* A data frame is a sequence of rows; a row is a record of cells.  A text *)
(* cell is a string or NaN, a timestamp cell is a number of seconds, NaT   *)
(* or (before parsing) text that is no timestamp.                          *)

\* the missing value of an object column (float NaN)
NaN == "<NaN>"
\* the missing value of a datetime column
NaT == 0 - 1
\* a cell of started_at / ended_at that pd.to_datetime cannot parse
NotATime == 0 - 2

REQUIRED_COLUMNS ==
    <<"ride_id", "rideable_type", "started_at", "ended_at", "member_casual">>

STRING_COLUMNS ==
    <<"ride_id", "rideable_type", "start_station_name", "start_station_id",
      "end_station_name", "end_station_id", "member_casual", "source_file">>

Columns(row) == DOMAIN row

\* (variant: the column is left as it was read)
FillNaKeep(cell) == cell
\* Series.fillna("").astype(str) on one cell
FillNaStr(cell) == IF cell = NaN THEN "" ELSE cell

\* pd.to_datetime(errors="coerce") on one cell
ToDatetime(cell) == IF cell = NotATime THEN NaT ELSE cell

\* Series.notna() on one cell of the column
NotNa(column, cell) ==
    IF column \in {"started_at", "ended_at"} THEN cell # NaT ELSE cell # NaN

\* lines 47-56: the conversions, column by column
Convert(row) ==
    [c \in Columns(row) |->
        IF \E i \in 1..Len(STRING_COLUMNS) : STRING_COLUMNS[i] = c
        THEN FillNaStr(row[c])
        ELSE IF c \in {"started_at", "ended_at"}
        THEN ToDatetime(row[c])
        ELSE row[c]]

\* lines 64-67: every required column present in the frame is not null
HasRequired(row) ==
    \A i \in 1..Len(REQUIRED_COLUMNS) :
        REQUIRED_COLUMNS[i] \in Columns(row) =>
            NotNa(REQUIRED_COLUMNS[i], row[REQUIRED_COLUMNS[i]])

\* lines 69-76: the range and duration filters
MinDuration == 60
MaxDuration == 86400
ValidRange(row) ==
    ({"started_at", "ended_at"} \subseteq Columns(row)) =>
        /\ row.started_at < row.ended_at
        /\ row.ended_at - row.started_at >= MinDuration
        /\ row.ended_at - row.started_at <= MaxDuration

\* validate_schema(df), from the columns of the frame
ValidateSchema(columns) ==
    \A i \in 1..Len(REQUIRED_COLUMNS) : REQUIRED_COLUMNS[i] \in columns

\* clean(df)
Clean(df) ==
    IF df = <<>> THEN df
    ELSE LET converted == [i \in 1..Len(df) |-> Convert(df[i])]
             required == SelectSeq(converted, HasRequired)
         IN  SelectSeq(required, ValidRange)

----------------------------------------------------------------------------
(* clean as a function of the frame: one call on a frame of up to MaxFrame *)
(* rows that all carry the ten columns below.  A cell of a text column is  *)
(* a string, or NaN where the file had nothing; a cell of started_at /     *)
(* ended_at is a second count, NaT where the file had nothing, or NotATime *)
(* where it had text that is no timestamp.                                 *)

\* rows of the frame
MaxFrame == 2

\* a ride of ten minutes whose end station the file leaves out
GoodRide ==
    [ride_id |-> "r1", rideable_type |-> "classic_bike",
     started_at |-> 1000, ended_at |-> 1600,
     start_station_name |-> "Grove St", start_station_id |-> "JC005",
     end_station_name |-> NaN, end_station_id |-> NaN,
     member_casual |-> "member", source_file |-> "trips.csv"]

\* the rides a frame is made of: the good one, one per missing required
\* field, and one per case of the range and duration tests
CleanRows ==
    {GoodRide,
     [GoodRide EXCEPT !.start_station_id = NaN],
     [GoodRide EXCEPT !.ride_id = NaN],
     [GoodRide EXCEPT !.rideable_type = NaN],
     [GoodRide EXCEPT !.member_casual = NaN],
     [GoodRide EXCEPT !.started_at = NaT],
     [GoodRide EXCEPT !.ended_at = NotATime],
     [GoodRide EXCEPT !.ended_at = 1000],
     [GoodRide EXCEPT !.ended_at = 900],
     [GoodRide EXCEPT !.ended_at = 1000 + MinDuration - 1],
     [GoodRide EXCEPT !.ended_at = 1000 + MinDuration],
     [GoodRide EXCEPT !.ended_at = 1000 + MaxDuration],
     [GoodRide EXCEPT !.ended_at = 1000 + MaxDuration + 1]}

Frames == SeqUpTo(CleanRows, MaxFrame)

InitClean ==
    /\ FirstIdle
    /\ RetryIdle
    /\ MainIdle
    /\ frame \in Frames
    /\ pcClean = "start"
    /\ cleaned = <<>>

\* BikeShareCleaner.clean(df) is called on the frame and returns
CleanCall ==
    /\ pcClean = "start"
    /\ cleaned' = Clean(frame)
    /\ pcClean' = "done"
    /\ UNCHANGED <<frame, firstVars, retryVars, mainVars>>

NextClean == CleanCall

SpecClean == InitClean /\ [][NextClean]_vars

----------------------------------------------------------------------------
\* a frame of the kind C11 speaks of: its rows lack nothing but, possibly,
\* the ride_id, and their timestamps are timestamps
RangeDefectsOnly(f) ==
    \A i \in 1..Len(f) :
        /\ f[i].rideable_type # NaN
        /\ f[i].member_casual # NaN
        /\ f[i].started_at \notin {NaT, NotATime}
        /\ f[i].ended_at \notin {NaT, NotATime}

\* the rows C11 says are kept
HasIdAndValidTimes(row) ==
    /\ row.ride_id # NaN
    /\ row.started_at < row.ended_at
    /\ row.ended_at - row.started_at >= 60
    /\ row.ended_at - row.started_at <= 86400

\* what identifies the ride of a row
Ride(row) == <<row.ride_id, row.started_at, row.ended_at>>
Rides(f) == [i \in 1..Len(f) |-> Ride(f[i])]

(* C11: on a frame whose rows lack at most the ride_id and have parsed     *)
(* timestamps, clean returns, in frame order, exactly the rides that have  *)
(* a ride_id, start before they end and last 60 to 86400 seconds, both     *)
(* ends included.                                                          *)
C11_DropsExactlyUnion ==
    (pcClean = "done" /\ RangeDefectsOnly(frame)) =>
        Rides(cleaned) = Rides(SelectSeq(frame, HasIdAndValidTimes))

\* the required cell was null in the file (clean leaves "" for a null text)
RequiredMissing(row, column) ==
    IF column \in {"started_at", "ended_at"}
    THEN row[column] \in {NaT, NotATime}
    ELSE row[column] \in {NaN, ""}

(* C12: every row clean returns has its five required fields: none of      *)
(* them is null or the blank left for a null.                              *)
C12_RequiredPresent ==
    pcClean = "done" =>
        \A i \in 1..Len(cleaned) :
            \A c \in {"ride_id", "rideable_type", "started_at", "ended_at",
                      "member_casual"} :
                ~RequiredMissing(cleaned[i], c)

\* the eight text columns
TextColumns ==
    {"ride_id", "rideable_type", "start_station_name", "start_station_id",
     "end_station_name", "end_station_id", "member_casual", "source_file"}

(* C13: in what clean returns for a non-empty frame no text column holds   *)
(* NaN, and each holds only texts the frame had in that column, or "" if   *)
(* the frame had a null there.                                             *)
C13_TextNeverNull ==
    (pcClean = "done" /\ frame # <<>>) =>
        \A i \in 1..Len(cleaned) :
            \A c \in TextColumns :
                /\ cleaned[i][c] # NaN
                /\ \/ \E j \in 1..Len(frame) :
                         frame[j][c] # NaN /\ cleaned[i][c] = frame[j][c]
                   \/ /\ cleaned[i][c] = ""
                      /\ \E j \in 1..Len(frame) : frame[j][c] = NaN

C13_Witness ==
    /\ pcClean = "done"
    /\ Len(frame) = 2
    /\ Len(cleaned) = 2
    /\ frame[1].start_station_id = NaN
    /\ cleaned[1].start_station_id = ""
    /\ cleaned[1].end_station_name = ""
    /\ cleaned[2].start_station_id = "JC005"

----------------------------------------------------------------------------
(* 4.5 Bulk loader: load_csv_to_clickhouse under retry(max_attempts=3),    *)
(* called up to MaxRuns times on one payload file.  The store is the       *)
(* raw_rides table, its rows in insertion order: at first it is missing,   *)
(* or holds a row of another file.  One insert_df appends its batch whole  *)
(* or raises and appends nothing.  get_clickhouse_client, with its own     *)
(* retries, is one step that returns a client or raises.  The loaded_at    *)
(* column, which nothing reads, is left out.                               *)

\* rows of the payload file
MaxRows == 3
\* calls of load_csv_to_clickhouse on the file
MaxRuns == 2

\* retry(max_attempts=3, delay=5)
max_attempts == 3

\* Path(csv_path).name
filename == "trips.csv"

\* the i-th line of the payload, by kind: a valid ride, or one that ends
\* when it starts
RawRow(i, kind) ==
    [ride_id |-> ToString(i), rideable_type |-> "classic_bike",
     started_at |-> 1000, ended_at |-> IF kind = "valid" THEN 1600 ELSE 1000,
     start_station_id |-> NaN, member_casual |-> "member"]

RowKinds == {"valid", "invalid"}

\* the row without the cell of a column the file's header does not have
DropColumn(row, column) == [c \in Columns(row) \ {column} |-> row[c]]

\* the file of one valid ride whose header has no member_casual
NoMemberPayloads ==
    {<<DropColumn(RawRow(1, "valid"), "member_casual")>>}

\* the payload files: 1..MaxRows lines
Payloads ==
    UNION {{[i \in 1..n |-> RawRow(i, kinds[i])] : kinds \in [1..n -> RowKinds]}
              : n \in 1..MaxRows}
        \cup NoMemberPayloads

\* a row another file's load left in the table
OtherFileRow ==
    [ride_id |-> "0", rideable_type |-> "classic_bike", started_at |-> 1000,
     ended_at |-> 1600, start_station_id |-> "", member_casual |-> "member",
     source_file |-> "other.csv"]

\* chunk["source_file"] = filename
Stamp(chunk) ==
    [i \in 1..Len(chunk) |->
        [c \in Columns(chunk[i]) \cup {"source_file"} |->
            IF c = "source_file" THEN filename ELSE chunk[i][c]]]

\* pd.read_csv(csv_path, chunksize=batch_size): the number of chunks and the
\* n-th chunk (1-based)
Min(a, b) == IF a < b THEN a ELSE b
ChunkCount(rows, size) == (Len(rows) + size - 1) \div size
\* (variant: every chunk loses its first row)
ChunkSkipsFirstRow(rows, size, n) ==
    SubSeq(rows, (n - 1) * size + 2, Min(n * size, Len(rows)))
Chunk(rows, size, n) ==
    SubSeq(rows, (n - 1) * size + 1, Min(n * size, Len(rows)))

\* SELECT count(*) FROM raw_rides WHERE source_file = '{filename}'
CountRows(table, name) ==
    Cardinality({i \in 1..Len(table) : table[i].source_file = name})

\* the concatenation of a sequence of batches
RECURSIVE Flatten(_)
Flatten(batches) ==
    IF batches = <<>> THEN <<>>
    ELSE Head(batches) \o Flatten(Tail(batches))

\* check_file_already_loaded(client, filename): what it returns, given how
\* its two store operations end; any exception is logged and answered False
CheckOutcomes == {"ok", "create_fails", "query_fails"}
CheckFileAlreadyLoaded(table, name, outcome) ==
    IF outcome = "ok" THEN CountRows(table, name) > 0 ELSE FALSE

InitLoad ==
    /\ CatalogIdle
    /\ DiskIdle
    /\ AllIdle
    /\ ExtraIdle
    /\ csv \in Payloads
    /\ batch_size \in {1, 2}
    /\ skip_duplicates \in BOOLEAN
    /\ tableExists \in BOOLEAN
    /\ store = IF tableExists THEN <<OtherFileRow>> ELSE <<>>
    /\ pcLoad = "idle"
    /\ attempt = 0
    /\ chunk_count = 0
    /\ total_rows = 0
    /\ ret = 0
    /\ runs = 0
    /\ storeAtCall = <<>>
    /\ written = <<>>

loadConfig == <<csv, batch_size, skip_duplicates>>

\* a caller calls load_csv_to_clickhouse(csv_path): the wrapper's first
\* attempt begins
CallLoad ==
    /\ pcLoad \in {"idle", "returned", "raised"}
    /\ runs < MaxRuns
    /\ runs' = runs + 1
    /\ attempt' = 1
    /\ pcLoad' = "connect"
    /\ storeAtCall' = store
    /\ chunk_count' = 0
    /\ total_rows' = 0
    /\ written' = <<>>
    /\ UNCHANGED <<loadConfig, tableExists, store, ret>>

\* the wrapper's except clause: re-raise after the last attempt, else sleep
\* and run the function again from its first line
AttemptFails ==
    /\ IF attempt = max_attempts
       THEN pcLoad' = "raised" /\ attempt' = attempt
       ELSE pcLoad' = "connect" /\ attempt' = attempt + 1
    /\ UNCHANGED <<loadConfig, runs, storeAtCall, ret, chunk_count,
                   total_rows, written>>

\* line 220: get_clickhouse_client returns a client; lines 231-232
ConnectOk ==
    /\ pcLoad = "connect"
    /\ pcLoad' = IF skip_duplicates THEN "check" ELSE "chunks"
    /\ chunk_count' = 0
    /\ total_rows' = 0
    /\ written' = <<>>
    /\ UNCHANGED <<loadConfig, tableExists, store, attempt, runs,
                   storeAtCall, ret>>

\* line 220: get_clickhouse_client raises after its own attempts
ConnectFails ==
    /\ pcLoad = "connect"
    /\ AttemptFails
    /\ UNCHANGED <<tableExists, store>>

\* lines 224-226: the duplicate check and the early return
CheckLoaded ==
    /\ pcLoad = "check"
    /\ \E outcome \in CheckOutcomes :
          /\ tableExists' = (tableExists \/ outcome # "create_fails")
          /\ IF CheckFileAlreadyLoaded(store, filename, outcome)
             THEN pcLoad' = "returned" /\ ret' = 0
             ELSE pcLoad' = "chunks" /\ ret' = ret
    /\ UNCHANGED <<loadConfig, store, attempt, runs, storeAtCall,
                   chunk_count, total_rows, written>>

\* the chunk the loop body is about to handle, stamped and cleaned
NextChunkClean ==
    Clean(Stamp(Chunk(csv, batch_size, chunk_count + 1)))

MoreChunks == chunk_count < ChunkCount(csv, batch_size)

\* lines 248-251: a chunk that cleans to nothing is not written
SkipEmptyChunk ==
    /\ pcLoad = "chunks"
    /\ MoreChunks
    /\ Len(NextChunkClean) = 0
    /\ chunk_count' = chunk_count + 1
    /\ UNCHANGED <<loadConfig, tableExists, store, pcLoad, attempt, runs,
                   storeAtCall, ret, total_rows, written>>

\* lines 255-262: the batch is written
InsertChunk ==
    /\ pcLoad = "chunks"
    /\ MoreChunks
    /\ Len(NextChunkClean) # 0
    /\ tableExists
    /\ store' = store \o NextChunkClean
    /\ written' = Append(written, NextChunkClean)
    /\ total_rows' = total_rows + Len(NextChunkClean)
    /\ chunk_count' = chunk_count + 1
    /\ UNCHANGED <<loadConfig, tableExists, pcLoad, attempt, runs,
                   storeAtCall, ret>>

\* (variant: a failed write takes back the batches of the attempt)
InsertFailsRollsBack ==
    /\ pcLoad = "chunks"
    /\ MoreChunks
    /\ Len(NextChunkClean) # 0
    /\ AttemptFails
    /\ store' = SubSeq(store, 1, Len(store) - Len(Flatten(written)))
    /\ UNCHANGED tableExists
\* lines 256-259, 267-269: insert_df raises (always, without the table)
InsertFails ==
    /\ pcLoad = "chunks"
    /\ MoreChunks
    /\ Len(NextChunkClean) # 0
    /\ AttemptFails
    /\ UNCHANGED <<tableExists, store>>

\* lines 264-265: the loop is over
ReturnTotal ==
    /\ pcLoad = "chunks"
    /\ ~MoreChunks
    /\ pcLoad' = "returned"
    /\ ret' = total_rows
    /\ UNCHANGED <<loadConfig, tableExists, store, attempt, runs,
                   storeAtCall, chunk_count, total_rows, written>>

NextLoad ==
    \/ CallLoad /\ UNCHANGED <<catVars, diskVars, allVars, extraVars>>
    \/ ConnectOk /\ UNCHANGED <<catVars, diskVars, allVars, extraVars>>
    \/ ConnectFails /\ UNCHANGED <<catVars, diskVars, allVars, extraVars>>
    \/ CheckLoaded /\ UNCHANGED <<catVars, diskVars, allVars, extraVars>>
    \/ SkipEmptyChunk /\ UNCHANGED <<catVars, diskVars, allVars, extraVars>>
    \/ InsertChunk /\ UNCHANGED <<catVars, diskVars, allVars, extraVars>>
    \/ InsertFails /\ UNCHANGED <<catVars, diskVars, allVars, extraVars>>
    \/ ReturnTotal /\ UNCHANGED <<catVars, diskVars, allVars, extraVars>>

SpecLoad == InitLoad /\ [][NextLoad]_vars

----------------------------------------------------------------------------
(* C2: with skip_duplicates, a call of load_csv_to_clickhouse that begins  *)
(* when the store holds a row of the file writes nothing, and returns 0    *)
(* when it returns (so the second of two loads in a row inserts no row).   *)
C2_SecondLoadSkips ==
    (skip_duplicates /\ runs > 0 /\ CountRows(storeAtCall, filename) > 0) =>
        /\ store = storeAtCall
        /\ pcLoad = "returned" => ret = 0

(* C3: with skip_duplicates, whatever calls and retries have run, no row   *)
(* of the file (a ride_id of the payload) is in the store twice.           *)
C3_AtMostOnce ==
    skip_duplicates =>
        \A i, j \in 1..Len(store) :
            (/\ i < j
             /\ store[i].source_file = filename
             /\ store[j].source_file = filename)
                => store[i].ride_id # store[j].ride_id

(* C14: while the header of the payload file lacks a required column, no   *)
(* row of the file is in the store and no call on it has returned          *)
(* normally: the load is refused before the first write.                   *)
C14_SchemaGate ==
    ~ValidateSchema(Columns(csv[1])) =>
        /\ CountRows(store, filename) = 0
        /\ pcLoad # "returned"

\* an attempt on a file of several chunks has returned from its loop
LoopCompleted ==
    /\ pcLoad = "returned"
    /\ chunk_count = ChunkCount(csv, batch_size)
    /\ chunk_count > 1

(* C4: when an attempt on a file of more than one chunk runs its loop to   *)
(* the end, the batches it wrote, concatenated in write order, are the     *)
(* cleaned rows of the whole file in file order, and they are the rows the *)
(* store ends with.                                                        *)
C4_ChunkOrder ==
    LoopCompleted =>
        LET all == Flatten(written)
        IN  /\ all = Clean(Stamp(csv))
            /\ Len(store) >= Len(all)
            /\ SubSeq(store, Len(store) - Len(all) + 1, Len(store)) = all

C4_Witness ==
    /\ LoopCompleted
    /\ Len(written) >= 2
    /\ Len(Flatten(written)) < Len(csv)

\* the loop is about to hand a batch to insert_df
AboutToWrite ==
    /\ pcLoad = "chunks"
    /\ MoreChunks
    /\ Len(NextChunkClean) # 0

(* C19: whenever load_csv_to_clickhouse is about to write a batch, the     *)
(* table exists: a missing table has been created by then, whatever        *)
(* skip_duplicates is.                                                     *)
C19_TableBeforeWrite ==
    AboutToWrite => tableExists

\* the cleaned rows of the first n chunks of the file
CleanedChunks(n) ==
    Flatten([i \in 1..n |-> Clean(Stamp(Chunk(csv, batch_size, i)))])

\* the store ends with the given rows
EndsWith(table, rows) ==
    /\ Len(table) >= Len(rows)
    /\ SubSeq(table, Len(table) - Len(rows) + 1, Len(table)) = rows

\* a step in which an error leaves the chunk loop
LoopRaises ==
    /\ pcLoad = "chunks"
    /\ pcLoad' \in {"connect", "raised"}

(* C20: an attempt writes the cleaned chunks in order with no gap, and the *)
(* batches it has written are what the store ends with, also after the     *)
(* attempt has failed; the step in which a batch write fails writes        *)
(* nothing and takes nothing back, leaves the remaining chunks unwritten   *)
(* and hands the error to the retry wrapper (next attempt, or re-raise     *)
(* after the last).                                                        *)
C20_FailedWriteAborts ==
    /\ [](/\ Flatten(written) = CleanedChunks(chunk_count)
          /\ EndsWith(store, Flatten(written)))
    /\ [][LoopRaises =>
             /\ store' = store
             /\ written' = written
             /\ chunk_count' = chunk_count
             /\ chunk_count < ChunkCount(csv, batch_size)
             /\ IF attempt = max_attempts
                THEN pcLoad' = "raised" /\ attempt' = attempt
                ELSE pcLoad' = "connect" /\ attempt' = attempt + 1]_vars

C20_Witness ==
    /\ pcLoad \in {"connect", "raised"}
    /\ Len(written) = 1
    /\ chunk_count = 1
    /\ ChunkCount(csv, batch_size) = 3
    /\ CountRows(store, filename) = 1
    /\ CountRows(storeAtCall, filename) = 0

\* the rows of the file in the table, in insertion order
FileRows(table, name) ==
    SelectSeq(table, LAMBDA row : row.source_file = name)

(* C21: when a call of the wrapped load_csv_to_clickhouse that began with  *)
(* no row of the file in the store has returned, every cleaned row of the  *)
(* file is in the store and the value returned is the number of rows of    *)
(* the file in the store, whatever the earlier attempts of the call did.   *)
C21_ReturnMeansLoaded ==
    (pcLoad = "returned" /\ CountRows(storeAtCall, filename) = 0) =>
        /\ \A i \in 1..Len(Clean(Stamp(csv))) :
              InList(Clean(Stamp(csv))[i], FileRows(store, filename))
        /\ ret = CountRows(store, filename)

----------------------------------------------------------------------------
(* The retry decorator: one call of the wrapper retry(max_attempts,        *)
(* delay)(func).  Each execution of func returns a value or raises an      *)
(* error; func and time.sleep always come back.                            *)

\* largest max_attempts
MaxAttempts == 3

\* what func may return and raise
FuncValues == {"v1", "v2"}
FuncErrors == {"e1", "e2"}

\* the delays tried
Delays == {1, 5}

\* (variant: no attempt is taken for the last)
NeverLastAttempt(n, max) == FALSE
\* line 49: attempt == max_attempts
IsLastAttempt(n, max) == n = max

InitRetry ==
    /\ FirstIdle
    /\ CleanIdle
    /\ MainIdle
    /\ retry_max_attempts \in 0..MaxAttempts
    /\ retry_delay \in Delays
    /\ pcRetry = "loop"
    /\ retry_attempt = 1
    /\ executions = <<>>
    /\ slept = <<>>
    /\ retry_result = None

retryConfig == <<retry_max_attempts, retry_delay>>

\* lines 46-47: func returns and the wrapper returns its value
FuncReturns ==
    /\ pcRetry = "loop"
    /\ retry_attempt <= retry_max_attempts
    /\ \E v \in FuncValues :
          /\ executions' = Append(executions, [ok |-> TRUE, value |-> v])
          /\ retry_result' = v
    /\ pcRetry' = "returned"
    /\ UNCHANGED <<retryConfig, retry_attempt, slept, firstVars, cleanVars,
                   mainVars>>

\* lines 48-55: func raises; the last attempt's error is raised again
FuncRaises ==
    /\ pcRetry = "loop"
    /\ retry_attempt <= retry_max_attempts
    /\ \E e \in FuncErrors :
          /\ executions' = Append(executions, [ok |-> FALSE, value |-> e])
          /\ IF IsLastAttempt(retry_attempt, retry_max_attempts)
             THEN pcRetry' = "raised" /\ retry_result' = e
             ELSE pcRetry' = "sleep" /\ retry_result' = retry_result
    /\ UNCHANGED <<retryConfig, retry_attempt, slept, firstVars, cleanVars,
                   mainVars>>

\* line 56 and the loop's next turn
Sleep ==
    /\ pcRetry = "sleep"
    /\ slept' = Append(slept, retry_delay)
    /\ retry_attempt' = retry_attempt + 1
    /\ pcRetry' = "loop"
    /\ UNCHANGED <<retryConfig, executions, retry_result, firstVars,
                   cleanVars, mainVars>>

\* line 45: range(1, max_attempts + 1) is used up and the wrapper returns
\* None
LoopEnds ==
    /\ pcRetry = "loop"
    /\ retry_attempt > retry_max_attempts
    /\ pcRetry' = "returned"
    /\ retry_result' = None
    /\ UNCHANGED <<retryConfig, retry_attempt, executions, slept, firstVars,
                   cleanVars, mainVars>>

NextRetry == FuncReturns \/ FuncRaises \/ Sleep \/ LoopEnds

SpecRetry == InitRetry /\ [][NextRetry]_vars

----------------------------------------------------------------------------
\* the executions that failed
AllFailed(es) == \A i \in 1..Len(es) : ~es[i].ok

(* C15: in a call of a wrapped function, func has run at most max_attempts *)
(* times and never after an execution that returned; the wrapper has slept *)
(* delay once between two executions and at no other time; when it has    *)
(* returned after an execution, that execution is the first to succeed and *)
(* its value is returned; when it has raised, max_attempts executions have *)
(* all failed and the error is the last one's; and the call ends: it is    *)
(* never stuck before returning or raising, and takes at most              *)
(* 2 * max_attempts steps.                                                 *)
C15_RetryBounded ==
    /\ Len(executions) <= retry_max_attempts
    /\ AllFailed(SubSeq(executions, 1, Len(executions) - 1))
    /\ \A i \in 1..Len(slept) : slept[i] = retry_delay
    /\ Len(slept) = IF pcRetry = "loop" \/ executions = <<>>
                    THEN Len(executions)
                    ELSE Len(executions) - 1
    /\ (pcRetry = "returned" /\ executions # <<>>) =>
          /\ executions[Len(executions)].ok
          /\ retry_result = executions[Len(executions)].value
    /\ pcRetry = "raised" =>
          /\ Len(executions) = retry_max_attempts
          /\ AllFailed(executions)
          /\ retry_result = executions[Len(executions)].value
    /\ pcRetry \in {"loop", "sleep"} => ENABLED NextRetry
    /\ Len(executions) + Len(slept) <= 2 * retry_max_attempts

C15_Witness ==
    /\ pcRetry = "raised"
    /\ retry_max_attempts = 3
    /\ Len(executions) = 3
    /\ executions[1].value # executions[3].value
    /\ slept = <<retry_delay, retry_delay>>

----------------------------------------------------------------------------
(* The entry point and its three workflows: download_and_load, one call of *)
(* load_csv_to_clickhouse (--file), load_directory.  A call of the wrapped *)
(* load_csv_to_clickhouse is one step here: it returns a row count, or     *)
(* raises once its attempts are used up.  download_all is one step too: it *)
(* returns a list of CSV paths or raises (get_file_links raising).         *)

\* most files a run loads
MaxFiles == 2
\* most rows one load returns
MaxFileRows == 2

FileNames == {"a.csv", "b.csv", "c.csv"}

\* lists of distinct files in sorted order, as sorted(glob) gives them
FileLists ==
    {l \in SeqUpTo(FileNames, MaxFiles) :
        \A i \in 1..(Len(l) - 1) :
            \/ l[i] = "a.csv" /\ l[i+1] # "a.csv"
            \/ l[i] = "b.csv" /\ l[i+1] = "c.csv"}

\* how one call of load_csv_to_clickhouse ends
LoadResults ==
    {[ok |-> TRUE, rows |-> r] : r \in 0..MaxFileRows}
        \cup {[ok |-> FALSE, rows |-> 0]}

\* (variant: a failed file ends the loop)
AbortAfterFailure(list, pos) == Len(list) + 1
\* lines 295-297, 329-330: the except clause falls through to the next file
AfterFailure(list, pos) == pos + 1

RECURSIVE SumRows(_)
SumRows(rs) ==
    IF rs = <<>> THEN 0
    ELSE (IF Head(rs).ok THEN Head(rs).rows ELSE 0) + SumRows(Tail(rs))

InitMain ==
    /\ FirstIdle
    /\ CleanIdle
    /\ RetryIdle
    /\ workflow \in {"download", "file", "dir"}
    /\ dir_exists \in BOOLEAN
    /\ found_files \in FileLists
    /\ pcMain = "start"
    /\ to_load = <<>>
    /\ load_pos = 0
    /\ results = <<>>
    /\ total_loaded = 0
    /\ failed_files = <<>>
    /\ total = 0
    /\ validated = FALSE

mainConfig == <<workflow, dir_exists, found_files>>
restVars == <<firstVars, cleanVars, retryVars>>

\* the workflow has its list (lines 280-289, 314-324) and enters its loop,
\* or returns 0 when the list is empty (lines 282-284, 316-318)
EnterLoop ==
    /\ to_load' = found_files
    /\ load_pos' = 1
    /\ IF found_files = <<>>
       THEN pcMain' = "validate" /\ total' = 0
       ELSE pcMain' = "loading" /\ total' = total
    /\ UNCHANGED <<mainConfig, results, total_loaded, failed_files,
                   validated, restVars>>

\* lines 364-367, 313-314: download_all returns
StartDownload ==
    /\ pcMain = "start"
    /\ workflow = "download"
    /\ EnterLoop

\* line 314: download_all raises, download_and_load does, and line 383
\* catches it
DownloadRaises ==
    /\ pcMain = "start"
    /\ workflow = "download"
    /\ pcMain' = "exit1"
    /\ UNCHANGED <<mainConfig, to_load, load_pos, results, total_loaded,
                   failed_files, total, validated, restVars>>

\* lines 372-373, 276-280: the directory is there
StartDir ==
    /\ pcMain = "start"
    /\ workflow = "dir"
    /\ dir_exists
    /\ EnterLoop

\* lines 276-278: no such directory, sys.exit(1)
DirMissing ==
    /\ pcMain = "start"
    /\ workflow = "dir"
    /\ ~dir_exists
    /\ pcMain' = "exit1"
    /\ UNCHANGED <<mainConfig, to_load, load_pos, results, total_loaded,
                   failed_files, total, validated, restVars>>

\* lines 368-371: the one call of the --file workflow returns, or raises
\* and line 383 catches it
LoadSingle ==
    /\ pcMain = "start"
    /\ workflow = "file"
    /\ \E r \in LoadResults :
          /\ results' = Append(results, r)
          /\ IF r.ok
             THEN pcMain' = "validate" /\ total' = r.rows
             ELSE pcMain' = "exit1" /\ total' = total
    /\ UNCHANGED <<mainConfig, to_load, load_pos, total_loaded, failed_files,
                   validated, restVars>>

\* lines 291-297, 325-330: one turn of the loop over the files
LoadNext ==
    /\ pcMain = "loading"
    /\ load_pos <= Len(to_load)
    /\ \E r \in LoadResults :
          /\ results' = Append(results, r)
          /\ IF r.ok
             THEN /\ total_loaded' = total_loaded + r.rows
                  /\ load_pos' = load_pos + 1
                  /\ UNCHANGED failed_files
             ELSE /\ load_pos' = AfterFailure(to_load, load_pos)
                  /\ failed_files' =
                        IF workflow = "dir"
                        THEN Append(failed_files, to_load[load_pos])
                        ELSE failed_files
                  /\ UNCHANGED total_loaded
    /\ UNCHANGED <<mainConfig, pcMain, to_load, total, validated, restVars>>

\* lines 299-306, 332: the loop is over and the workflow returns
ReturnTotalLoaded ==
    /\ pcMain = "loading"
    /\ load_pos > Len(to_load)
    /\ pcMain' = "validate"
    /\ total' = total_loaded
    /\ UNCHANGED <<mainConfig, to_load, load_pos, results, total_loaded,
                   failed_files, validated, restVars>>

\* lines 376-378: total >= 0, the client is there and validate_loaded_data
\* sends its queries (their failure is logged inside it)
Validate ==
    /\ pcMain = "validate"
    /\ total >= 0
    /\ validated' = TRUE
    /\ pcMain' = "done"
    /\ UNCHANGED <<mainConfig, to_load, load_pos, results, total_loaded,
                   failed_files, total, restVars>>

\* line 377: get_clickhouse_client raises after its attempts; line 383
ValidateNoClient ==
    /\ pcMain = "validate"
    /\ total >= 0
    /\ pcMain' = "exit1"
    /\ UNCHANGED <<mainConfig, to_load, load_pos, results, total_loaded,
                   failed_files, total, validated, restVars>>

NextMain ==
    \/ StartDownload
    \/ DownloadRaises
    \/ StartDir
    \/ DirMissing
    \/ LoadSingle
    \/ LoadNext
    \/ ReturnTotalLoaded
    \/ Validate
    \/ ValidateNoClient

SpecMain == InitMain /\ [][NextMain]_vars

----------------------------------------------------------------------------
\* load_directory or download_and_load has returned from its loop
LoopWorkflowReturned ==
    /\ workflow \in {"dir", "download"}
    /\ pcMain \in {"validate", "done"}
    /\ to_load # <<>>

(* C16: when load_directory or download_and_load returns, every file of    *)
(* its list has been tried once, in list order, whatever the earlier ones  *)
(* did; the total it returns is the sum of the row counts of the calls     *)
(* that returned; load_directory has the failed files, and only them, in   *)
(* failed_files.                                                           *)
C16_FailedFileSkipped ==
    LoopWorkflowReturned =>
        /\ Len(results) = Len(to_load)
        /\ total = SumRows(results)
        /\ workflow = "dir" =>
              failed_files =
                 Flatten([i \in 1..Len(to_load) |->
                             IF results[i].ok THEN <<>> ELSE <<to_load[i]>>])

C16_Witness ==
    /\ LoopWorkflowReturned
    /\ workflow = "download"
    /\ Len(to_load) = 2
    /\ ~results[1].ok
    /\ results[2].ok
    /\ results[2].rows = 2
    /\ total = 2

(* C17: a run of the entry point that has ended, normally or by           *)
(* sys.exit(1), has attempted the validation query, whichever workflow     *)
(* ran and whether or not a file load failed.                              *)
C17_ValidationAttempted ==
    pcMain \in {"done", "exit1"} => validated

----------------------------------------------------------------------------
(* 4.2 / 4.6 download_all: the candidates are resolved and capped, fetched *)
(* by a pool of max_workers threads, and the fetched archives are unpacked *)
(* one after the other once every fetch has returned.  The object keys of  *)
(* a bucket are unique, so the listing has no repeated key.  The data      *)
(* directory may hold what earlier runs left.                              *)

\* largest pool
MaxWorkers == 2
\* largest limit argument
MaxLimit == 2

Limits == {NoLimit} \cup 0..MaxLimit

\* the listings of distinct keys
Listings ==
    {L \in SeqUpTo(FetchKeys \cup {OtherZip}, MaxListing) :
        \A i, j \in 1..Len(L) : i # j => L[i] # L[j]}

\* the decompressed paths of the keys
CsvPaths == {ReplaceZipCsv(k) : k \in FetchKeys}

\* what earlier runs have left in the data directory: of each key nothing,
\* a whole or a truncated archive, or the extracted CSV
LeftOvers ==
    {d \in [Paths -> {"none", "part", "full"}] :
        /\ \A p \in CsvPaths : d[p] # "part"
        /\ \A p \in Paths \ (FetchKeys \cup CsvPaths) : d[p] = "none"
        /\ \A k \in FetchKeys : Exists(d, ReplaceZipCsv(k)) => ~Exists(d, k)}

\* lines 145-146: "if limit:" is false for None and for 0
ApplyLimit(list, lim) ==
    IF lim # NoLimit /\ lim # 0
    THEN SubSeq(list, 1, Min(lim, Len(list)))
    ELSE list

\* Path.suffix
Suffix(path) == IF Len(path) > 1 THEN path[Len(path)] ELSE ""

\* (variant: the loop ends at the first failed fetch)
LoopStopsAtNone(paths, idx) ==
    IF paths[idx] = None THEN Len(paths) + 1 ELSE idx + 1
\* line 159: the loop over downloaded_paths moves to the next path
LoopNext(paths, idx) == idx + 1

\* the downloader before a call of download_all
InitDownloader ==
    /\ listing \in Listings
    /\ start_from \in FetchKeys
    /\ pcList = "start"
    /\ links = <<>>
    /\ disk \in LeftOvers
    /\ last = NoCall
    /\ prev = NoCall
    /\ unpacked = {}
    /\ limit \in Limits
    /\ max_workers \in 1..MaxWorkers
    /\ pcAll = "start"
    /\ file_links = <<>>
    /\ task = <<>>
    /\ downloaded_paths = <<>>
    /\ position = 0
    /\ unpack_ret = <<>>
    /\ csv_files = <<>>

InitAll ==
    /\ LoadIdle
    /\ ExtraIdle
    /\ InitDownloader

allConfig == <<listing, start_from, limit, max_workers, loadVars, last, prev,
               unpacked, links, pcList, extraVars>>

\* lines 143-151: get_file_links returns; the limit; nothing to download
Resolve ==
    /\ pcAll = "start"
    /\ LET capped == ApplyLimit(FileLinks(listing, start_from), limit)
       IN  /\ file_links' = capped
           /\ task' = [i \in 1..Len(capped) |-> "queued"]
           /\ downloaded_paths' = [i \in 1..Len(capped) |-> None]
           /\ unpack_ret' = [i \in 1..Len(capped) |-> NotCalled]
           /\ pcAll' = IF capped = <<>> THEN "done" ELSE "fetching"
    /\ UNCHANGED <<allConfig, disk, position, csv_files>>

\* line 143: get_file_links raises, and so does download_all
ResolveRaises ==
    /\ pcAll = "start"
    /\ pcAll' = "raised"
    /\ UNCHANGED <<allConfig, disk, file_links, task, downloaded_paths,
                   position, unpack_ret, csv_files>>

\* (variant: every call writes to one scratch file, the first candidate's)
ScratchPath(file_name) == JC1
\* line 66: zip_path, the file a call of download_file writes (line 86)
ZipPath(file_name) == file_name
\* lines 67-68: csv_path, which the call only tests (line 71)
CsvPath(file_name) == ReplaceZipCsv(file_name)

Running == {i \in 1..Len(task) : task[i] \in {"request", "writing"}}

\* (variant: a pool that starts every submitted call at once)
WorkerAlwaysFree(busy, workers) == TRUE
\* line 155: ThreadPoolExecutor(max_workers) has a thread to give
WorkerFree(busy, workers) == busy < workers

\* a free worker takes the oldest queued call of download_file and runs it
\* up to the request (lines 66-82)
TaskStart(i) ==
    /\ pcAll = "fetching"
    /\ task[i] = "queued"
    /\ \A j \in 1..(i-1) : task[j] # "queued"
    /\ WorkerFree(Cardinality(Running), max_workers)
    /\ LET found == FoundOnDisk(disk, file_links[i])
       IN  IF found # None
           THEN /\ task' = [task EXCEPT ![i] = "done"]
                /\ downloaded_paths' = [downloaded_paths EXCEPT ![i] = found]
           ELSE /\ task' = [task EXCEPT ![i] = "request"]
                /\ UNCHANGED downloaded_paths
    /\ UNCHANGED <<allConfig, disk, pcAll, file_links, position, unpack_ret,
                   csv_files>>

\* lines 84-86: the request fails (the call returns None), or the response
\* arrives and open(zip_path, "wb") creates the file
TaskRequest(i) ==
    /\ pcAll = "fetching"
    /\ task[i] = "request"
    /\ \/ /\ task' = [task EXCEPT ![i] = "done"]
          /\ UNCHANGED disk
       \/ /\ task' = [task EXCEPT ![i] = "writing"]
          /\ disk' = [disk EXCEPT ![ZipPath(file_links[i])] = "part"]
    /\ UNCHANGED <<allConfig, pcAll, file_links, downloaded_paths, position,
                   unpack_ret, csv_files>>

\* lines 87-95: the last chunk is written and zip_path returned, or a chunk
\* fails and the call returns None
TaskFinish(i) ==
    /\ pcAll = "fetching"
    /\ task[i] = "writing"
    /\ task' = [task EXCEPT ![i] = "done"]
    /\ \/ /\ disk' = [disk EXCEPT ![ZipPath(file_links[i])] = "full"]
          /\ downloaded_paths' =
                [downloaded_paths EXCEPT ![i] = ZipPath(file_links[i])]
       \/ UNCHANGED <<disk, downloaded_paths>>
    /\ UNCHANGED <<allConfig, pcAll, file_links, position, unpack_ret,
                   csv_files>>

\* (variant: the results are taken as they come, the first is enough)
FirstFetchReturned(tasks) == tasks[1] = "done"
\* line 156: list(...) has drained executor.map, every call has returned
EveryFetchReturned(tasks) == \A i \in 1..Len(tasks) : tasks[i] = "done"

\* line 156: list(executor.map(...)) has every result
Collect ==
    /\ pcAll = "fetching"
    /\ EveryFetchReturned(task)
    /\ pcAll' = "extracting"
    /\ position' = 1
    /\ UNCHANGED <<allConfig, disk, file_links, task, downloaded_paths,
                   unpack_ret, csv_files>>

\* lines 159-165: one turn of the loop over downloaded_paths
ExtractNext ==
    /\ pcAll = "extracting"
    /\ position <= Len(downloaded_paths)
    /\ LET path == downloaded_paths[position]
       IN  \/ /\ path # None
              /\ Suffix(path) = ".zip"
              /\ \E m \in Members(path), o \in UnpackOutcomes :
                    /\ UnpackPossible(disk, path, m, o)
                    /\ LET r == ExtractZip(disk, path, m, o)
                       IN  /\ disk' = r.disk
                           /\ unpack_ret' =
                                 [unpack_ret EXCEPT ![position] = r.ret]
                           /\ csv_files' = IF r.ret # None
                                           THEN Append(csv_files, r.ret)
                                           ELSE csv_files
           \/ /\ path # None
              /\ Suffix(path) # ".zip"
              /\ Suffix(path) = ".csv"
              /\ csv_files' = Append(csv_files, path)
              /\ UNCHANGED <<disk, unpack_ret>>
           \/ /\ path = None \/ Suffix(path) \notin {".zip", ".csv"}
              /\ UNCHANGED <<disk, unpack_ret, csv_files>>
    /\ position' = LoopNext(downloaded_paths, position)
    /\ UNCHANGED <<allConfig, pcAll, file_links, task, downloaded_paths>>

\* lines 167-168
ReturnCsvFiles ==
    /\ pcAll = "extracting"
    /\ position > Len(downloaded_paths)
    /\ pcAll' = "done"
    /\ UNCHANGED <<allConfig, disk, file_links, task, downloaded_paths,
                   position, unpack_ret, csv_files>>

NextAll ==
    \/ Resolve
    \/ ResolveRaises
    \/ \E i \in 1..Len(task) : TaskStart(i)
    \/ \E i \in 1..Len(task) : TaskRequest(i)
    \/ \E i \in 1..Len(task) : TaskFinish(i)
    \/ Collect
    \/ ExtractNext
    \/ ReturnCsvFiles

SpecAll == InitAll /\ [][NextAll]_vars

----------------------------------------------------------------------------
\* candidate i was fetched and, where needed, unpacked
Included(i) ==
    /\ downloaded_paths[i] # None
    /\ \/ Suffix(downloaded_paths[i]) = ".csv"
       \/ unpack_ret[i] \notin {None, NotCalled}

(* C7: when download_all returns, every candidate's download_file call has *)
(* run to its end whatever the others returned; every archive a fetch      *)
(* returned was handed to extract_zip; the returned list holds, in         *)
(* candidate order, exactly the CSV paths of the candidates whose fetch    *)
(* returned a path and whose unpack (if one was needed) returned one; a    *)
(* candidate whose fetch failed is not in it.                              *)
C7_FailureIsolated ==
    (pcAll = "done" /\ file_links # <<>>) =>
        /\ \A i \in 1..Len(file_links) : task[i] = "done"
        /\ \A i \in 1..Len(file_links) :
              (downloaded_paths[i] # None
                  /\ Suffix(downloaded_paths[i]) = ".zip")
                  => unpack_ret[i] # NotCalled
        /\ csv_files =
              Flatten([i \in 1..Len(file_links) |->
                          IF Included(i)
                          THEN <<ReplaceZipCsv(file_links[i])>>
                          ELSE <<>>])
        /\ \A i \in 1..Len(file_links) :
              downloaded_paths[i] = None
                  => ~InList(ReplaceZipCsv(file_links[i]), csv_files)

C7_Witness ==
    /\ pcAll = "done"
    /\ Len(file_links) = 2
    /\ downloaded_paths[1] = None
    /\ downloaded_paths[2] = file_links[2]
    /\ unpack_ret[2] = ReplaceZipCsv(file_links[2])
    /\ csv_files = <<ReplaceZipCsv(file_links[2])>>

(* C18: at every moment of download_all, at most max_workers calls of      *)
(* download_file are in flight (taken by a worker and not yet returned).   *)
C18_PoolBounded ==
    Cardinality(Running) <= max_workers

C18_Witness ==
    /\ pcAll = "fetching"
    /\ max_workers = 1
    /\ Len(task) = 2
    /\ task[1] = "writing"
    /\ task[2] = "queued"

\* the candidates a worker has taken and that have not returned differ
\* pairwise in their keys
TwoInFlight ==
    \E i, j \in Running : i # j /\ file_links[i] # file_links[j]

(* C23: during the fetches of download_all, for any two candidates with    *)
(* distinct keys the files their calls write differ and the file one tests *)
(* or writes is not the file the other writes; and a step of the fetch     *)
(* stage changes no file but the one the call taking the step writes.      *)
C23_OwnDestination ==
    /\ [](\A i, j \in 1..Len(file_links) :
             (i # j /\ file_links[i] # file_links[j]) =>
                 /\ ZipPath(file_links[i]) # ZipPath(file_links[j])
                 /\ CsvPath(file_links[i]) # ZipPath(file_links[j]))
    /\ [][pcAll = "fetching" =>
             \A p \in DOMAIN disk :
                 disk'[p] # disk[p] =>
                     \E i \in 1..Len(task) :
                         /\ task'[i] # task[i]
                         /\ \A j \in 1..Len(task) : j # i => task'[j] = task[j]
                         /\ p = file_links[i]]_vars

C23_Witness ==
    /\ TwoInFlight
    /\ task = <<"writing", "writing">>
    /\ disk[file_links[1]] = "part"
    /\ disk[file_links[2]] = "part"

\* the candidates get_file_links resolved for the call
Resolved == FileLinks(listing, start_from)

(* C24: once download_all has its candidates, those it fetches are, with a *)
(* limit n >= 0, the first n of the resolved sequence in order (all of     *)
(* them if there are fewer than n), and without a limit all of them.       *)
C24_LimitCaps ==
    pcAll \in {"fetching", "extracting", "done"} =>
        file_links =
            IF limit = NoLimit THEN Resolved
            ELSE SubSeq(Resolved, 1, Min(limit, Len(Resolved)))

----------------------------------------------------------------------------
(* download_and_load: download_all as above, then the loop of loads over   *)
(* the list it returned.  A call of load_csv_to_clickhouse is one step, as *)
(* in the entry point's workflows.                                         *)

InitDownloadAndLoad ==
    /\ LoadIdle
    /\ CleanIdle
    /\ RetryIdle
    /\ InitDownloader
    /\ workflow = "download"
    /\ dir_exists = TRUE
    /\ found_files = <<>>
    /\ pcMain = "start"
    /\ to_load = <<>>
    /\ load_pos = 0
    /\ results = <<>>
    /\ total_loaded = 0
    /\ failed_files = <<>>
    /\ total = 0
    /\ validated = FALSE

\* lines 314-324: download_all has returned its list; the loop begins, or
\* the workflow returns 0 for an empty list
DownloadAllReturned ==
    /\ pcMain = "start"
    /\ workflow = "download"
    /\ pcAll = "done"
    /\ found_files' = csv_files
    /\ to_load' = csv_files
    /\ load_pos' = 1
    /\ IF csv_files = <<>>
       THEN pcMain' = "validate" /\ total' = 0
       ELSE pcMain' = "loading" /\ total' = total
    /\ UNCHANGED <<workflow, dir_exists, results, total_loaded, failed_files,
                   validated, restVars>>

\* line 314: download_all has raised and download_and_load raises with it
DownloadAllRaised ==
    /\ pcAll = "raised"
    /\ DownloadRaises

NextDownloadAndLoad ==
    \/ NextAll
    \/ DownloadAllReturned
    \/ DownloadAllRaised
    \/ LoadNext
    \/ ReturnTotalLoaded

SpecDownloadAndLoad == InitDownloadAndLoad /\ [][NextDownloadAndLoad]_vars

----------------------------------------------------------------------------
\* the candidate whose CSV path is the given one
ProducedBy(path, i) ==
    /\ Included(i)
    /\ ReplaceZipCsv(file_links[i]) = path

====
